---- MODULE Spec2Model ----
(***************************************************************************)
(* done-it: the todo persistence layer (src/lib/db.ts), the lazy schema    *)
(* initialisation (src/lib/init.ts) and the HTTP handlers that call them   *)
(* (src/app/api/todos/...).  Every handler is an async function: it runs   *)
(* synchronously up to an `await` of a storage call, and other requests    *)
(* may run between two such points.  One action of the model is one such   *)
(* synchronous stretch of one request, ending with the storage statement   *)
(* it awaits, which the backend executes atomically.                       *)
(***************************************************************************)
EXTENDS Integers, Sequences, FiniteSets, TLC

VARIABLES
    users,        \* rows of table users
    todos,        \* rows of table todos: a function from id to row
    nextUserId,   \* users.id sequence (SERIAL / AUTOINCREMENT)
    nextTodoId,   \* todos.id sequence (SERIAL / AUTOINCREMENT)
    now,          \* the wall clock (new Date(), CURRENT_TIMESTAMP)
    initialized,  \* src/lib/init.ts: let initialized = false
    sessions,     \* user ids for which a session cookie has been issued
    req           \* the requests in flight, one per slot

vars == <<users, todos, nextUserId, nextTodoId, now, initialized, sessions, req>>
dbvars == <<users, todos, nextUserId, nextTodoId>>

(***************************************************************************)
(* Bounds of the model.                                                    *)
(***************************************************************************)
NumSlots == 2     \* requests in flight at the same time
MaxTodos == 2     \* todos ever created
MaxUsers == 2     \* users ever created
MaxClock == 1     \* ticks of the clock

Slots == 1..NumSlots

(***************************************************************************)
(* JSON values.  A value carries its JavaScript type; strings are          *)
(* sequences of characters.                                                *)
(***************************************************************************)
Undefined == [t |-> "undefined", b |-> FALSE, s |-> <<>>, n |-> 0]
Null == [t |-> "null", b |-> FALSE, s |-> <<>>, n |-> 0]
Bool(b) == [t |-> "boolean", b |-> b, s |-> <<>>, n |-> 0]
Str(s) == [t |-> "string", b |-> FALSE, s |-> s, n |-> 0]
Num(n) == [t |-> "number", b |-> FALSE, s |-> <<>>, n |-> n]

\* JavaScript truthiness: undefined, null, false, "" and 0 are falsy.
Truthy(v) ==
    CASE v.t = "undefined" -> FALSE
      [] v.t = "null" -> FALSE
      [] v.t = "boolean" -> v.b
      [] v.t = "string" -> Len(v.s) > 0
      [] v.t = "number" -> v.n # 0

\* `key in obj` and obj[key] of a parsed JSON object.
Has(obj, key) == key \in DOMAIN obj
Get(obj, key) == IF key \in DOMAIN obj THEN obj[key] ELSE Undefined

\* String.prototype.trim: white space is removed from both ends.
RECURSIVE TrimStart(_)
TrimStart(s) ==
    IF Len(s) > 0 /\ Head(s) = " " THEN TrimStart(Tail(s)) ELSE s

RECURSIVE TrimEnd(_)
TrimEnd(s) ==
    IF Len(s) > 0 /\ s[Len(s)] = " " THEN TrimEnd(SubSeq(s, 1, Len(s) - 1)) ELSE s

Trim(s) == TrimEnd(TrimStart(s))

\* Number.parseInt(string): leading white space is skipped, an optional sign
\* is read, then the longest prefix of decimal digits; NaN when that prefix
\* is empty.  What follows the digits is ignored.
NaN == -1000000

Digits == <<"0", "1", "2", "3", "4", "5", "6", "7", "8", "9">>
IsDigit(c) == \E i \in 1..10 : Digits[i] = c
DigitVal(c) == (CHOOSE i \in 1..10 : Digits[i] = c) - 1

RECURSIVE ParseDigits(_, _, _)
ParseDigits(s, acc, seen) ==
    IF Len(s) > 0 /\ IsDigit(Head(s))
    THEN ParseDigits(Tail(s), 10 * acc + DigitVal(Head(s)), TRUE)
    ELSE IF seen THEN acc ELSE NaN

parseInt(str) ==
    LET s == TrimStart(str) IN
    IF Len(s) > 0 /\ Head(s) = "-"
    THEN LET m == ParseDigits(Tail(s), 0, FALSE) IN IF m = NaN THEN NaN ELSE 0 - m
    ELSE IF Len(s) > 0 /\ Head(s) = "+" THEN ParseDigits(Tail(s), 0, FALSE)
    ELSE ParseDigits(s, 0, FALSE)

isNaN(n) == n = NaN


(***************************************************************************)
(* Rows.  Integer and timestamp columns hold numbers; the columns a client *)
(* can write hold JSON values.  A missing row is a row with id 0.          *)
(***************************************************************************)
NoTodo == [id |-> 0]
NoUser == [id |-> 0]

Medium == <<"m", "e", "d", "i", "u", "m">>
High == <<"h", "i", "g", "h">>
Low == <<"l", "o", "w">>

TodoColumns ==
    {"id", "user_id", "title", "description", "priority", "category",
     "completed", "completed_at", "due_date", "created_at", "updated_at"}
NumberColumns == {"id", "user_id", "created_at", "updated_at"}

\* The value a column keeps of a bound parameter.  The boolean column
\* completed keeps the number 1 as true and the number 0 as false.
Stored(col, v) ==
    IF col \in NumberColumns THEN v.n
    ELSE IF col = "completed" /\ v.t = "number" THEN Bool(v.n # 0)
    ELSE v

\* The table with row `row` put at id `id`.
PutRow(tbl, id, row) ==
    [i \in DOMAIN tbl \cup {id} |-> IF i = id THEN row ELSE tbl[i]]

\* The table without the row of id `id`.
DropRow(tbl, id) == [i \in DOMAIN tbl \ {id} |-> tbl[i]]

(***************************************************************************)
(* The persistence layer, src/lib/db.ts.  Each operation is given the      *)
(* table it works on and yields the table it leaves and what it returns.   *)
(***************************************************************************)

\* SELECT * FROM users WHERE username = ?
getUserByUsername(utbl, username) ==
    IF \E u \in utbl : u.username = username
    THEN CHOOSE u \in utbl : u.username = username
    ELSE NoUser

\* SELECT * FROM users WHERE id = ?
getUserById(utbl, id) ==
    IF \E u \in utbl : u.id = id THEN CHOOSE u \in utbl : u.id = id ELSE NoUser

\* A users table without the UNIQUE constraint on username.
UsernameUnconstrained(utbl, username) == TRUE

\* username ... UNIQUE NOT NULL: the constraint of the schema initDb creates.
UsernameUnique(utbl, username) == \A u \in utbl : u.username # username

\* INSERT INTO users (username, password_hash): a violation of the UNIQUE
\* constraint is an error of the statement, caught and turned into null.
createUser(utbl, newId, username, passwordHash, ts) ==
    IF UsernameUnique(utbl, username)
    THEN LET row == [id |-> newId, username |-> username,
                     password_hash |-> passwordHash, created_at |-> ts]
         IN  [users |-> utbl \cup {row}, result |-> row]
    ELSE [users |-> utbl, result |-> NoUser]

\* SELECT * FROM todos WHERE id = ?
getTodoById(tbl, id) == IF id \in DOMAIN tbl THEN tbl[id] ELSE NoTodo

\* INSERT INTO todos (user_id, title, description, priority, category, due_date):
\* the other columns take the defaults of the schema.
createTodo(tbl, newId, userId, title, description, priority, category, dueDate, ts) ==
    LET row == [id |-> newId, user_id |-> userId, title |-> title,
                description |-> description, priority |-> priority,
                category |-> category, completed |-> Bool(FALSE),
                completed_at |-> Null, due_date |-> dueDate,
                created_at |-> ts, updated_at |-> ts]
    IN  [todos |-> PutRow(tbl, newId, row), result |-> row]

\* The row after `UPDATE todos SET <key> = <value>, ..., updated_at = <ts>`.
UpdatedRow(row, updates, ts) ==
    [c \in DOMAIN row |->
        IF c \in DOMAIN updates THEN Stored(c, updates[c])
        ELSE IF c = "updated_at" THEN ts
        ELSE row[c]]

\* An updateTodo that inserts the row when the id is not in the table.
updateTodoRecreates(tbl, id, updates, ts) ==
    LET old == IF id \in DOMAIN tbl THEN tbl[id]
               ELSE createTodo(tbl, id, 0, Null, Null, Null, Null, Null, ts).result
        row == [c \in DOMAIN old |->
                   IF c \in DOMAIN updates THEN updates[c]
                   ELSE IF c = "updated_at" THEN ts
                   ELSE old[c]]
    IN  [todos |-> [i \in DOMAIN tbl \cup {id} |-> IF i = id THEN row ELSE tbl[i]],
         result |-> row]

\* An updateTodo that runs its UPDATE, with the refresh of updated_at, for an
\* empty field set too.
updateTodoAlwaysWrites(tbl, id, updates, ts) ==
    IF id \notin DOMAIN tbl THEN [todos |-> tbl, result |-> NoTodo]
    ELSE LET row == [c \in DOMAIN tbl[id] |->
                        IF c \in DOMAIN updates THEN updates[c]
                        ELSE IF c = "updated_at" THEN ts
                        ELSE tbl[id][c]]
         IN  [todos |-> [tbl EXCEPT ![id] = row], result |-> row]

\* updateTodo: no field gives the record as it is; otherwise one UPDATE of
\* the given fields and updated_at.  A statement that names no column of the
\* table, or assigns updated_at twice, is an error: caught, null is returned.
updateTodo(tbl, id, updates, ts) ==
    IF DOMAIN updates = {} THEN [todos |-> tbl, result |-> getTodoById(tbl, id)]
    ELSE IF ~(DOMAIN updates \subseteq TodoColumns) \/ "updated_at" \in DOMAIN updates
    THEN [todos |-> tbl, result |-> NoTodo]
    ELSE IF id \notin DOMAIN tbl THEN [todos |-> tbl, result |-> NoTodo]
    ELSE LET row == UpdatedRow(tbl[id], updates, ts)
         IN  [todos |-> PutRow(tbl, id, row), result |-> row]

\* A deleteTodo that reports success whether or not a row was removed.
deleteTodoAlwaysTrue(tbl, id) ==
    [todos |-> [i \in DOMAIN tbl \ {id} |-> tbl[i]], result |-> TRUE]

\* DELETE FROM todos WHERE id = ?: true when a row was removed.
deleteTodo(tbl, id) ==
    IF id \in DOMAIN tbl
    THEN [todos |-> DropRow(tbl, id), result |-> TRUE]
    ELSE [todos |-> tbl, result |-> FALSE]

\* SELECT * FROM todos WHERE user_id = ? (the set of rows; their order is
\* ORDER BY created_at DESC).
TodosOf(tbl, userId) == {i \in DOMAIN tbl : tbl[i].user_id = userId}


\* getTodosByUserId: the orders `ORDER BY created_at DESC` allows; rows with
\* the same created_at come in an order the backend chooses.
getTodosByUserId(tbl, userId) ==
    LET ids == TodosOf(tbl, userId)
        n == Cardinality(ids)
    IN  {s \in [1..n -> ids] :
            /\ \A i, j \in 1..n : i # j => s[i] # s[j]
            /\ \A i, j \in 1..n : i < j => tbl[s[i]].created_at >= tbl[s[j]].created_at}

(***************************************************************************)
(* Math.round((completed / total) * 100) in IEEE 754 double precision, for *)
(* 0 < completed < total < 2^13.  A double has 53 significant bits; they   *)
(* are kept here in three limbs of 18, 18 and 17 bits, so that no          *)
(* intermediate value exceeds 31 bits.                                     *)
(***************************************************************************)
LimbBits == 18
LowLimbBits == 17

\* The number of zero bits between the binary point and the first one bit
\* of completed / total.
LeadingZeros(completed, total) ==
    CHOOSE z \in 0..13 :
        /\ completed * 2^(z + 1) >= total
        /\ \A y \in 0..(z - 1) : completed * 2^(y + 1) < total

\* Round to nearest, ties to even: one is added to the kept bits when the
\* first dropped bit is set and either a later one is or the last kept is.
RoundsUp(lsb, guard, sticky) == guard = 1 /\ (sticky \/ lsb = 1)

\* completed / total: long division gives the 53 bits after the leading
\* zeros, the next bit and whether the division is exact; the quotient is
\* the double <<q1, q2, q3>> / 2^(z + 53).
FloatDiv(completed, total) ==
    LET z == LeadingZeros(completed, total)
        r0 == completed * 2^z
        q1 == (r0 * 2^LimbBits) \div total
        r1 == (r0 * 2^LimbBits) % total
        q2 == (r1 * 2^LimbBits) \div total
        r2 == (r1 * 2^LimbBits) % total
        q3 == (r2 * 2^LowLimbBits) \div total
        r3 == (r2 * 2^LowLimbBits) % total
        guard == (2 * r3) \div total
        sticky == (2 * r3) % total # 0
        up == IF RoundsUp(q3 % 2, guard, sticky) THEN 1 ELSE 0
        s3 == q3 + up
        s2 == q2 + (s3 \div 2^LowLimbBits)
        s1 == q1 + (s2 \div 2^LimbBits)
    IN  IF s1 = 2^LimbBits
        THEN [z |-> z - 1, q1 |-> 2^(LimbBits - 1), q2 |-> 0, q3 |-> 0]
        ELSE [z |-> z, q1 |-> s1, q2 |-> s2 % 2^LimbBits, q3 |-> s3 % 2^LowLimbBits]

\* x * 100: the exact product has 59 or 60 bits, of which the low 6 or 7
\* are rounded away.  The result is <<x1, l2, l3>> with x1 the bits above
\* the two low limbs of x: its value is (x1 + fraction) / 2^(z + 18).
FloatTimes100(x) ==
    LET p3 == x.q3 * 100
        p2 == x.q2 * 100 + (p3 \div 2^LowLimbBits)
        p1 == x.q1 * 100 + (p2 \div 2^LimbBits)
        l3 == p3 % 2^LowLimbBits
        l2 == p2 % 2^LimbBits
        d == IF p1 < 2^24 THEN 6 ELSE 7
        guard == (l3 \div 2^(d - 1)) % 2
        sticky == l3 % 2^(d - 1) # 0
        up == IF RoundsUp((l3 \div 2^d) % 2, guard, sticky) THEN 1 ELSE 0
        s3 == (l3 \div 2^d) + up
        s2 == l2 + (s3 \div 2^(LowLimbBits - d))
        s1 == p1 + (s2 \div 2^LimbBits)
    IN  [z |-> x.z, x1 |-> s1, l2 |-> s2 % 2^LimbBits, l3 |-> s3 % 2^(LowLimbBits - d)]

\* Math.round: the integer part, plus one when the fraction is a half or
\* more.  The integer part and the first fraction bit both lie in x1.
MathRound(p) ==
    (p.x1 \div 2^(p.z + LimbBits)) + ((p.x1 \div 2^(p.z + LimbBits - 1)) % 2)

\* total > 0 ? Math.round((completed / total) * 100) : 0
CompletionRate(completed, total) ==
    IF total > 0
    THEN IF completed = 0 THEN 0
         ELSE IF completed = total THEN 100
         ELSE MathRound(FloatTimes100(FloatDiv(completed, total)))
    ELSE 0

\* getCompletedTodoStats: COUNT(*) and SUM(CASE WHEN completed = true ...)
\* over the rows of the user.
getCompletedTodoStats(tbl, userId) ==
    LET total == Cardinality(TodosOf(tbl, userId))
        completed ==
            Cardinality({i \in TodosOf(tbl, userId) : tbl[i].completed = Bool(TRUE)})
    IN  [total |-> total, completed |-> completed,
         completionRate |-> CompletionRate(completed, total)]


(***************************************************************************)
(* The collaborators of src/lib/auth (validateUsername, validatePassword,  *)
(* hashPassword): pure validators and an opaque hash.                      *)
(***************************************************************************)
ValidUsernames == {"alice", "bob"}
ValidPasswords == {"Str0ngPass!"}
validateUsername(username) == username \in ValidUsernames
validatePassword(password) == password \in ValidPasswords
hashPassword(password) == <<"hash", password>>

(***************************************************************************)
(* Requests.  A request in flight keeps what it was sent (session cookie,  *)
(* id of the URL, JSON body) once the handler has read it, the todo it     *)
(* loaded, the update it built, the storage calls it made, the value the   *)
(* last one returned and its response status.                              *)
(***************************************************************************)
EmptyBody == [k \in {} |-> Null]

Idle ==
    [pc |-> "idle", kind |-> "none", session |-> 0, id |-> <<>>,
     body |-> EmptyBody, existing |-> NoTodo, updates |-> EmptyBody, ts |-> 0,
     calls |-> <<>>, ret |-> NoTodo, status |-> 0,
     failed |-> "none", thrown |-> FALSE]

(***************************************************************************)
(* What clients send.                                                      *)
(***************************************************************************)

\* The endpoints.
Kinds == {"register", "post", "list", "stats", "patch", "delete"}

\* The ids of the URL of /api/todos/[id].
IdParams == {<<"1">>, <<"2">>, <<"2", "x">>, <<"x">>}

\* The bodies of POST /api/auth/register.
RegisterBodies ==
    { [username |-> "alice", password |-> "Str0ngPass!"],
      [username |-> "bob", password |-> "Str0ngPass!"],
      [username |-> "alice", password |-> "weak"],
      [username |-> "a b", password |-> "Str0ngPass!"] }

\* The bodies of POST /api/todos.
CreateBodies ==
    { [title |-> Str(<<"a">>)],
      [title |-> Str(<<" ", "a", " ">>), description |-> Str(<<" ">>),
       priority |-> Str(<<"x">>), user_id |-> Num(2), id |-> Num(1)],
      [title |-> Str(<<"a">>), user_id |-> Num(1)],
      [title |-> Str(<<" ">>), user_id |-> Num(2)],
      [title |-> Num(5)],
      EmptyBody }

\* The bodies of PATCH /api/todos/[id].
PatchBodies ==
    { EmptyBody,
      [completed |-> Bool(TRUE)],
      [completed |-> Bool(FALSE)],
      [title |-> Str(<<"b">>), user_id |-> Num(2), created_at |-> Num(1)],
      [id |-> Num(2), user_id |-> Num(1), created_at |-> Num(1), foo |-> Null],
      [title |-> Str(<<" ">>), completed |-> Bool(TRUE)],
      [priority |-> Str(<<"x">>), completed |-> Bool(FALSE)],
      [title |-> Num(5)] }

\* The requests that are let run against each other.
RaceIds == {<<"1">>, <<"2">>, <<"x">>}
RaceCreateBodies ==
    { [title |-> Str(<<" ", "a", " ">>), user_id |-> Num(2)],
      [title |-> Str(<<"a">>), user_id |-> Num(1)],
      [title |-> Str(<<" ">>)] }
RacePatchBodies ==
    { EmptyBody,
      [completed |-> Bool(TRUE)],
      [completed |-> Bool(FALSE)],
      [title |-> Str(<<"b">>), id |-> Num(2), user_id |-> Num(2), created_at |-> Num(1)],
      [title |-> Str(<<" ">>), completed |-> Bool(TRUE)] }

(***************************************************************************)
(* The handlers' decisions, src/app/api/todos/...                          *)
(***************************************************************************)

\* The checks of PATCH and DELETE without the comparison of the owner.
MutatingCheckNoOwner(session, id, tbl) ==
    IF session = 0 THEN 401
    ELSE IF isNaN(parseInt(id)) THEN 400
    ELSE IF parseInt(id) \notin DOMAIN tbl THEN 404
    ELSE 0

\* PATCH and DELETE /api/todos/[id], up to the ownership check: the status
\* of the early return, 0 when the handler goes on.
MutatingCheck(session, id, tbl) ==
    IF session = 0 THEN 401
    ELSE IF isNaN(parseInt(id)) THEN 400
    ELSE IF getTodoById(tbl, parseInt(id)).id = 0 THEN 404
    ELSE IF getTodoById(tbl, parseInt(id)).user_id # session THEN 403
    ELSE 0

AllowedFields == {"title", "description", "priority", "category", "completed", "due_date"}

ValidPriorities == {Str(High), Str(Medium), Str(Low)}

\* A check of the PATCH body that looks at the title alone.
FilterStatusTitleOnly(body) ==
    IF Has(body, "title") /\ ~Truthy(body["title"]) THEN 400
    ELSE IF Has(body, "title") /\ body["title"].t # "string" THEN 500
    ELSE IF Has(body, "title") /\ Len(Trim(body["title"].s)) = 0 THEN 400
    ELSE 0

\* PATCH: the loop over allowedFields.  A title that is falsy or blank and a
\* priority outside the enum end the request with 400; title is looked at
\* first, and a title that is truthy but no string has no trim(): the
\* TypeError is caught by the handler, 500.
FilterStatus(body) ==
    IF Has(body, "title") /\ ~Truthy(body["title"]) THEN 400
    ELSE IF Has(body, "title") /\ body["title"].t # "string" THEN 500
    ELSE IF Has(body, "title") /\ Len(Trim(body["title"].s)) = 0 THEN 400
    ELSE IF Has(body, "priority") /\ body["priority"] \notin ValidPriorities THEN 400
    ELSE 0

\* A filter that stamps completed_at whenever completed is sent as true,
\* whatever the loaded todo says.
FilteredUpdatesRestamps(body, existing, ts) ==
    LET kept == {k \in AllowedFields : Has(body, k)}
        isBool == Has(body, "completed") /\ body["completed"].t = "boolean"
        keys == kept \cup (IF isBool THEN {"completed_at"} ELSE {})
    IN  [k \in keys |->
            IF k = "completed_at"
            THEN (IF body["completed"].b THEN Num(ts) ELSE Null)
            ELSE body[k]]

\* A filter without the list of allowed fields: every key that names a
\* column is passed on to updateTodo.
FilteredUpdatesUnfiltered(body, existing, ts) ==
    [k \in DOMAIN body \cap (TodoColumns \ {"updated_at"}) |-> body[k]]

\* PATCH: filteredUpdates.  The allowed keys of the body are kept; a boolean
\* completed brings completed_at with it: the time of the request when the
\* loaded todo was not completed and becomes so, null when it is reset.
FilteredUpdates(body, existing, ts) ==
    LET kept == {k \in AllowedFields : Has(body, k)}
        isBool == Has(body, "completed") /\ body["completed"].t = "boolean"
        stamps == isBool /\ body["completed"].b /\ ~Truthy(existing.completed)
        clears == isBool /\ ~body["completed"].b
        keys == kept \cup (IF stamps \/ clears THEN {"completed_at"} ELSE {})
    IN  [k \in keys |->
            IF k = "completed_at" THEN (IF stamps THEN Num(ts) ELSE Null)
            ELSE body[k]]

TitleMaxLength == 500

\* description?.trim() || null
TrimOrNull(v) ==
    IF v.t = "string" /\ Len(Trim(v.s)) > 0 THEN Str(Trim(v.s)) ELSE Null

\* x?.trim() of a value that is neither null, undefined nor a string.
TrimThrows(v) == v.t \in {"number", "boolean"}

\* POST /api/todos: the checks of the body.
CreateStatus(body) ==
    LET title == Get(body, "title") IN
    IF ~Truthy(title) THEN 400
    ELSE IF title.t # "string" THEN 500
    ELSE IF Len(Trim(title.s)) = 0 THEN 400
    ELSE IF Len(title.s) > TitleMaxLength THEN 400
    ELSE IF TrimThrows(Get(body, "description")) \/ TrimThrows(Get(body, "category"))
    THEN 500
    ELSE 0

\* Arguments of createTodo that take the owner from the body when it names one.
CreateArgsOwnerFromBody(session, body) ==
    [userId |-> IF Has(body, "user_id") THEN body["user_id"].n ELSE session,
     title |-> Str(Trim(Get(body, "title").s)),
     description |-> Null,
     priority |-> Str(Medium),
     category |-> Null,
     dueDate |-> Null]

\* Arguments of createTodo that pass the priority of the body on as it is.
CreateArgsKeepsPriority(session, body) ==
    [userId |-> session,
     title |-> Str(Trim(Get(body, "title").s)),
     description |-> Null,
     priority |-> Get(body, "priority"),
     category |-> Null,
     dueDate |-> Null]

\* POST /api/todos: the arguments of createTodo.
CreateArgs(session, body) ==
    [userId |-> session,
     title |-> Str(Trim(Get(body, "title").s)),
     description |-> TrimOrNull(Get(body, "description")),
     priority |-> IF Get(body, "priority") \in ValidPriorities
                  THEN Get(body, "priority") ELSE Str(Medium),
     category |-> TrimOrNull(Get(body, "category")),
     dueDate |-> IF Truthy(Get(body, "dueDate")) THEN Get(body, "dueDate") ELSE Null]


(***************************************************************************)
(* The state machine.                                                      *)
(***************************************************************************)
Init ==
    /\ users = {}
    /\ todos = [i \in {} |-> NoTodo]
    /\ nextUserId = 1
    /\ nextTodoId = 1
    /\ now = 0
    /\ initialized = FALSE
    /\ sessions = {}
    /\ req = [p \in Slots |-> Idle]

\* Every handler starts with `await ensureDbInitialized()`, which runs up to
\* its first await at once: with `initialized` set it returns, and the
\* handler goes on.  Entered(p, kind): slot p holds a request of this kind
\* that is past ensureDbInitialized, or is free for one to arrive now.
Entered(p, kind) ==
    \/ req[p].pc = "idle" /\ initialized
    \/ req[p].pc = "ready" /\ req[p].kind = kind

\* The request of kind `kind` in slot p, before the handler has read it.
Fresh(p, kind) == [Idle EXCEPT !.kind = kind, !.calls = req[p].calls]

\* ensureDbInitialized with `initialized` not set: a request arrives and
\* initDb() is called.
EnsureDbInitialized(p, kinds) ==
    /\ req[p].pc = "idle"
    /\ ~initialized
    /\ \E kind \in kinds :
          req' = [req EXCEPT ![p] = [Idle EXCEPT !.kind = kind, !.pc = "initDb",
                                                 !.calls = <<"initDb">>]]
    /\ UNCHANGED <<dbvars, now, initialized, sessions>>

\* initDb() has created the tables (CREATE TABLE IF NOT EXISTS leaves the
\* rows alone); ensureDbInitialized sets the flag.
InitDbDone(p) ==
    /\ req[p].pc = "initDb"
    /\ initialized' = TRUE
    /\ req' = [req EXCEPT ![p].pc = "ready"]
    /\ UNCHANGED <<dbvars, now, sessions>>

\* POST /api/auth/register up to the pre-check: the validators, then
\* getUserByUsername.
RegisterCheck(p, bodies) ==
    /\ Entered(p, "register")
    /\ \E body \in bodies :
          LET r == [Fresh(p, "register") EXCEPT !.body = body] IN
          IF ~validateUsername(body.username) \/ ~validatePassword(body.password)
          THEN req' = [req EXCEPT ![p] = [r EXCEPT !.status = 400, !.pc = "done"]]
          ELSE IF getUserByUsername(users, body.username).id # 0
          THEN req' = [req EXCEPT ![p] =
                         [r EXCEPT !.status = 409, !.pc = "done",
                                   !.calls = Append(@, "getUserByUsername")]]
          ELSE req' = [req EXCEPT ![p] =
                         [r EXCEPT !.pc = "registerCreate",
                                   !.calls = Append(@, "getUserByUsername")]]
    /\ UNCHANGED <<dbvars, now, initialized, sessions>>

\* POST /api/auth/register from hashPassword on: createUser, then the
\* session of the new user is saved in the client's cookie.
RegisterCreate(p) ==
    /\ req[p].pc = "registerCreate"
    /\ LET c == createUser(users, nextUserId, req[p].body.username,
                           hashPassword(req[p].body.password), now)
       IN  /\ c.result.id # 0 => nextUserId <= MaxUsers
           /\ users' = c.users
           /\ nextUserId' = IF c.result.id # 0 THEN nextUserId + 1 ELSE nextUserId
           /\ sessions' = IF c.result.id # 0 THEN sessions \cup {c.result.id} ELSE sessions
           /\ req' = [req EXCEPT ![p].ret = c.result,
                                 ![p].calls = Append(@, "createUser"),
                                 ![p].session = c.result.id,
                                 ![p].status = IF c.result.id # 0 THEN 200 ELSE 500,
                                 ![p].pc = "done"]
    /\ UNCHANGED <<todos, nextTodoId, now, initialized>>

\* POST /api/todos.
TodosPost(p, bodies) ==
    /\ Entered(p, "post")
    /\ \E s \in sessions \cup {0}, body \in bodies :
          LET r == [Fresh(p, "post") EXCEPT !.session = s, !.body = body, !.pc = "done"] IN
          IF s = 0
          THEN /\ req' = [req EXCEPT ![p] = [r EXCEPT !.status = 401]]
               /\ UNCHANGED <<todos, nextTodoId>>
          ELSE IF CreateStatus(body) # 0
          THEN /\ req' = [req EXCEPT ![p] = [r EXCEPT !.status = CreateStatus(body)]]
               /\ UNCHANGED <<todos, nextTodoId>>
          ELSE LET a == CreateArgs(s, body)
                   c == createTodo(todos, nextTodoId, a.userId, a.title, a.description,
                                   a.priority, a.category, a.dueDate, now)
               IN  /\ nextTodoId <= MaxTodos
                   /\ todos' = c.todos
                   /\ nextTodoId' = nextTodoId + 1
                   /\ req' = [req EXCEPT ![p] =
                                [r EXCEPT !.ret = c.result,
                                          !.calls = Append(@, "createTodo"),
                                          !.status = 201]]
    /\ UNCHANGED <<users, nextUserId, now, initialized, sessions>>

\* GET /api/todos.
TodosGet(p) ==
    /\ Entered(p, "list")
    /\ \E s \in sessions \cup {0} :
          LET r == [Fresh(p, "list") EXCEPT !.session = s, !.pc = "done"] IN
          IF s = 0
          THEN req' = [req EXCEPT ![p] = [r EXCEPT !.status = 401]]
          ELSE \E rows \in getTodosByUserId(todos, s) :
                  req' = [req EXCEPT ![p] =
                            [r EXCEPT !.ret = [i \in DOMAIN rows |-> todos[rows[i]]],
                                      !.calls = Append(@, "getTodosByUserId"),
                                      !.status = 200]]
    /\ UNCHANGED <<dbvars, now, initialized, sessions>>

\* GET /api/todos/stats.
StatsGet(p) ==
    /\ Entered(p, "stats")
    /\ \E s \in sessions \cup {0} :
          LET r == [Fresh(p, "stats") EXCEPT !.session = s, !.pc = "done"] IN
          IF s = 0
          THEN req' = [req EXCEPT ![p] = [r EXCEPT !.status = 401]]
          ELSE req' = [req EXCEPT ![p] =
                         [r EXCEPT !.ret = getCompletedTodoStats(todos, s),
                                   !.calls = Append(@, "getCompletedTodoStats"),
                                   !.status = 200]]
    /\ UNCHANGED <<dbvars, now, initialized, sessions>>

\* A handler that reads the todo before it looks at the session and the id.
LoadReadsFirst(p, kind, next, ids) ==
    \E s \in sessions \cup {0}, id \in ids :
        LET st == MutatingCheck(s, id, todos)
        IN  req' = [req EXCEPT ![p] =
                      [Fresh(p, kind) EXCEPT
                         !.session = s,
                         !.id = id,
                         !.existing = IF st = 0 THEN getTodoById(todos, parseInt(id))
                                      ELSE NoTodo,
                         !.calls = Append(@, "getTodoById"),
                         !.status = st,
                         !.pc = IF st = 0 THEN next ELSE "done"]]

\* PATCH and DELETE /api/todos/[id] up to the ownership check: the session,
\* the id, getTodoById, the owner.  `next` is where the handler goes on.
Load(p, kind, next, ids) ==
    \E s \in sessions \cup {0}, id \in ids :
        LET st == MutatingCheck(s, id, todos)
            loads == st \in {0, 403, 404}
        IN  req' = [req EXCEPT ![p] =
                      [Fresh(p, kind) EXCEPT
                         !.session = s,
                         !.id = id,
                         !.existing = IF st = 0 THEN getTodoById(todos, parseInt(id))
                                      ELSE NoTodo,
                         !.calls = IF loads THEN Append(@, "getTodoById") ELSE @,
                         !.status = st,
                         !.pc = IF st = 0 THEN next ELSE "done"]]

PatchLoad(p, ids) ==
    /\ Entered(p, "patch")
    /\ Load(p, "patch", "patchFilter", ids)
    /\ UNCHANGED <<dbvars, now, initialized, sessions>>

\* PATCH: the body is read and filtered; updateTodo is called and builds its
\* statement (with the time of the call for updated_at) up to the await of
\* the query.
PatchFilter(p, bodies) ==
    /\ req[p].pc = "patchFilter"
    /\ \E body \in bodies :
          IF FilterStatus(body) # 0
          THEN req' = [req EXCEPT ![p].body = body, ![p].existing = NoTodo,
                                  ![p].status = FilterStatus(body), ![p].pc = "done"]
          ELSE req' = [req EXCEPT ![p].body = body, ![p].existing = NoTodo,
                                  ![p].updates = FilteredUpdates(body, req[p].existing, now),
                                  ![p].ts = now,
                                  ![p].calls = Append(@, "updateTodo"),
                                  ![p].pc = "patchUpdate"]
    /\ UNCHANGED <<dbvars, now, initialized, sessions>>

\* PATCH: the statement of updateTodo runs; null gives 500.
PatchUpdate(p) ==
    /\ req[p].pc = "patchUpdate"
    /\ LET u == updateTodo(todos, parseInt(req[p].id), req[p].updates, req[p].ts)
       IN  /\ todos' = u.todos
           /\ req' = [req EXCEPT ![p].ret = u.result,
                                 ![p].updates = EmptyBody, ![p].ts = 0,
                                 ![p].status = IF u.result.id = 0 THEN 500 ELSE 200,
                                 ![p].pc = "done"]
    /\ UNCHANGED <<users, nextUserId, nextTodoId, now, initialized, sessions>>

DeleteLoad(p, ids) ==
    /\ Entered(p, "delete")
    /\ Load(p, "delete", "deleteExec", ids)
    /\ UNCHANGED <<dbvars, now, initialized, sessions>>

\* DELETE: deleteTodo; false gives 500.
DeleteExec(p) ==
    /\ req[p].pc = "deleteExec"
    /\ LET d == deleteTodo(todos, parseInt(req[p].id))
       IN  /\ todos' = d.todos
           /\ req' = [req EXCEPT ![p].ret = d.result,
                                 ![p].calls = Append(@, "deleteTodo"),
                                 ![p].status = IF d.result THEN 200 ELSE 500,
                                 ![p].pc = "done"]
    /\ UNCHANGED <<users, nextUserId, nextTodoId, now, initialized, sessions>>

\* The response is sent; the slot is free for the next request.
Respond(p) ==
    /\ req[p].pc = "done"
    /\ req' = [req EXCEPT ![p] = Idle]
    /\ UNCHANGED <<dbvars, now, initialized, sessions>>

\* Time passes.
Tick ==
    /\ now < MaxClock
    /\ now' = now + 1
    /\ UNCHANGED <<dbvars, initialized, sessions, req>>

Next ==
    \/ \E p \in Slots : EnsureDbInitialized(p, Kinds)
    \/ \E p \in Slots : InitDbDone(p)
    \/ \E p \in Slots : RegisterCheck(p, RegisterBodies)
    \/ \E p \in Slots : RegisterCreate(p)
    \/ \E p \in Slots : TodosPost(p, CreateBodies)
    \/ \E p \in Slots : TodosGet(p)
    \/ \E p \in Slots : StatsGet(p)
    \/ \E p \in Slots : PatchLoad(p, IdParams)
    \/ \E p \in Slots : PatchFilter(p, PatchBodies)
    \/ \E p \in Slots : PatchUpdate(p)
    \/ \E p \in Slots : DeleteLoad(p, IdParams)
    \/ \E p \in Slots : DeleteExec(p)
    \/ \E p \in Slots : Respond(p)
    \/ Tick

Spec == Init /\ [][Next]_vars

(***************************************************************************)
(* The whole system with one request at a time: a request is answered      *)
(* before the next one arrives.                                            *)
(***************************************************************************)
NextSeq ==
    \/ EnsureDbInitialized(1, Kinds)
    \/ InitDbDone(1)
    \/ RegisterCheck(1, RegisterBodies)
    \/ RegisterCreate(1)
    \/ TodosPost(1, CreateBodies)
    \/ TodosGet(1)
    \/ StatsGet(1)
    \/ PatchLoad(1, IdParams)
    \/ PatchFilter(1, PatchBodies)
    \/ PatchUpdate(1)
    \/ DeleteLoad(1, IdParams)
    \/ DeleteExec(1)
    \/ Respond(1)
    \/ Tick

SpecSeq == Init /\ [][NextSeq]_vars

(***************************************************************************)
(* The todo endpoints alone, from the state two registrations leave, with  *)
(* requests running against each other.                                    *)
(***************************************************************************)
Registered(id, username) ==
    [id |-> id, username |-> username,
     password_hash |-> hashPassword("Str0ngPass!"), created_at |-> 0]

InitTodos ==
    /\ users = {Registered(1, "alice"), Registered(2, "bob")}
    /\ todos = [i \in {} |-> NoTodo]
    /\ nextUserId = 3
    /\ nextTodoId = 1
    /\ now = 0
    /\ initialized = TRUE
    /\ sessions = {1, 2}
    /\ req = [p \in Slots |-> Idle]

NextTodos ==
    \/ \E p \in Slots : TodosPost(p, RaceCreateBodies)
    \/ \E p \in Slots : PatchLoad(p, RaceIds)
    \/ \E p \in Slots : PatchFilter(p, RacePatchBodies)
    \/ \E p \in Slots : PatchUpdate(p)
    \/ \E p \in Slots : DeleteLoad(p, RaceIds)
    \/ \E p \in Slots : DeleteExec(p)
    \/ \E p \in Slots : Respond(p)

SpecTodos == InitTodos /\ [][NextTodos]_vars


(***************************************************************************)
(* Registration alone, from the start of the process, with requests        *)
(* running against each other.                                             *)
(***************************************************************************)
NextRegister ==
    \/ \E p \in Slots : EnsureDbInitialized(p, {"register"})
    \/ \E p \in Slots : InitDbDone(p)
    \/ \E p \in Slots : RegisterCheck(p, RegisterBodies)
    \/ \E p \in Slots : RegisterCreate(p)
    \/ \E p \in Slots : Respond(p)
    \/ Tick

SpecRegister == Init /\ [][NextRegister]_vars

(***************************************************************************)
(* The statistics alone, over the tables a user's creations and            *)
(* completions leave: alice has `total` todos of which `completed` are     *)
(* completed, bob has one completed todo.                                  *)
(***************************************************************************)
StatsMaxTodos == 40   \* the most todos alice has

StatsRow(id, userId, completed) ==
    [createTodo(<<>>, id, userId, Str(<<"a">>), Null, Str(Medium), Null, Null, 0).result
        EXCEPT !.completed = Bool(completed),
               !.completed_at = IF completed THEN Num(0) ELSE Null]

StatsTable(total, completed) ==
    [i \in 1..(total + 1) |->
        IF i <= total THEN StatsRow(i, 1, i <= completed) ELSE StatsRow(i, 2, TRUE)]

InitStats ==
    /\ users = {Registered(1, "alice"), Registered(2, "bob")}
    /\ \E total \in 0..StatsMaxTodos : \E completed \in 0..total :
          /\ todos = StatsTable(total, completed)
          /\ nextTodoId = total + 2
    /\ nextUserId = 3
    /\ now = 0
    /\ initialized = TRUE
    /\ sessions = {1, 2}
    /\ req = [p \in Slots |-> Idle]

NextStats ==
    \/ \E p \in Slots : StatsGet(p)
    \/ \E p \in Slots : Respond(p)

SpecStats == InitStats /\ [][NextStats]_vars

(***************************************************************************)
(* Creation and titles: the todo endpoints for requests handled one at a   *)
(* time, from the state two registrations leave, with titles around the    *)
(* limit of 500 characters and a clock.                                    *)
(***************************************************************************)

\* The string of n characters c.
Chars(c, n) == [i \in 1..n |-> c]

TitleCreateBodies ==
    { [title |-> Str(<<"a">>)],
      [title |-> Str(<<" ", "a", " ">>), priority |-> Str(<<"x">>)],
      [title |-> Str(<<"a">>), priority |-> Str(High)],
      [title |-> Str(<<" ">>), priority |-> Str(High)],
      [title |-> Str(Chars("a", TitleMaxLength))],
      [title |-> Str(Chars("a", TitleMaxLength + 1))],
      [title |-> Str(Chars("a", TitleMaxLength - 1) \o <<" ", " ">>)],
      EmptyBody }

TitlePatchBodies ==
    { [title |-> Str(<<"b">>)],
      [title |-> Str(<<" ", "b", " ">>)],
      [title |-> Str(<<" ">>)],
      [completed |-> Bool(TRUE)],
      [completed |-> Num(1)] }

NextCreate ==
    \/ TodosPost(1, TitleCreateBodies)
    \/ PatchLoad(1, RaceIds)
    \/ PatchFilter(1, TitlePatchBodies)
    \/ PatchUpdate(1)
    \/ DeleteLoad(1, RaceIds)
    \/ DeleteExec(1)
    \/ Respond(1)
    \/ Tick

SpecCreate == InitTodos /\ [][NextCreate]_vars

(***************************************************************************)
(* Storage errors: the statement an operation of src/lib/db.ts sends to    *)
(* the backend fails (the connection is lost, a constraint is violated).   *)
(* An operation whose statement runs inside its try block logs the error   *)
(* and returns its null or false; the other operations have no try block   *)
(* and the error leaves them.  Every handler answers both with 500.        *)
(***************************************************************************)

\* The operations with a try block around their statement.
Catching == {"createUser", "createTodo", "updateTodo", "deleteTodo"}

\* What the catch block of the operation returns.
Sentinel(op) == IF op = "deleteTodo" THEN FALSE ELSE [id |-> 0]

\* The request r after the statement of its call of `op` has failed;
\* `caught` says whether the error met a catch block inside the operation.
Failed(r, op, caught) ==
    [r EXCEPT !.calls = Append(@, op),
              !.failed = op,
              !.thrown = ~caught,
              !.ret = IF caught THEN Sentinel(op) ELSE NoTodo,
              !.existing = NoTodo, !.updates = EmptyBody, !.ts = 0,
              !.status = 500,
              !.pc = "done"]

\* POST /api/auth/register: the SELECT of getUserByUsername fails.
RegisterCheckFails(p, bodies) ==
    /\ Entered(p, "register")
    /\ \E body \in bodies :
          /\ validateUsername(body.username) /\ validatePassword(body.password)
          /\ req' = [req EXCEPT ![p] =
                       Failed([Fresh(p, "register") EXCEPT !.body = body],
                              "getUserByUsername", "getUserByUsername" \in Catching)]
    /\ UNCHANGED <<dbvars, now, initialized, sessions>>

\* POST /api/auth/register: the INSERT of createUser fails.
RegisterCreateFails(p) ==
    /\ req[p].pc = "registerCreate"
    /\ req' = [req EXCEPT ![p] = Failed(req[p], "createUser", "createUser" \in Catching)]
    /\ UNCHANGED <<dbvars, now, initialized, sessions>>

\* POST /api/todos: the INSERT of createTodo fails.
TodosPostFails(p, bodies) ==
    /\ Entered(p, "post")
    /\ \E s \in sessions, body \in bodies :
          /\ CreateStatus(body) = 0
          /\ req' = [req EXCEPT ![p] =
                       Failed([Fresh(p, "post") EXCEPT !.session = s, !.body = body],
                              "createTodo", "createTodo" \in Catching)]
    /\ UNCHANGED <<dbvars, now, initialized, sessions>>

\* GET /api/todos and GET /api/todos/stats: the SELECT fails.
ReadFails(p, kind, op) ==
    /\ Entered(p, kind)
    /\ \E s \in sessions :
          req' = [req EXCEPT ![p] =
                    Failed([Fresh(p, kind) EXCEPT !.session = s], op, op \in Catching)]
    /\ UNCHANGED <<dbvars, now, initialized, sessions>>

TodosGetFails(p) == ReadFails(p, "list", "getTodosByUserId")

StatsGetFails(p) == ReadFails(p, "stats", "getCompletedTodoStats")

\* PATCH and DELETE /api/todos/[id]: the SELECT of getTodoById fails.
LoadFails(p, kind, ids) ==
    /\ Entered(p, kind)
    /\ \E s \in sessions, id \in ids :
          /\ ~isNaN(parseInt(id))
          /\ req' = [req EXCEPT ![p] =
                       Failed([Fresh(p, kind) EXCEPT !.session = s, !.id = id],
                              "getTodoById", "getTodoById" \in Catching)]
    /\ UNCHANGED <<dbvars, now, initialized, sessions>>

\* PATCH: the statement of updateTodo fails.  With fields it is the UPDATE,
\* inside the try block; with no field updateTodo returns the promise of
\* getTodoById without awaiting it, and the rejection passes the try block.
PatchUpdateFails(p) ==
    /\ req[p].pc = "patchUpdate"
    /\ req' = [req EXCEPT ![p] =
                 Failed(req[p], "updateTodo",
                        "updateTodo" \in Catching /\ DOMAIN req[p].updates # {})]
    /\ UNCHANGED <<dbvars, now, initialized, sessions>>

\* DELETE: the statement of deleteTodo fails.
DeleteExecFails(p) ==
    /\ req[p].pc = "deleteExec"
    /\ req' = [req EXCEPT ![p] =
                 Failed([req[p] EXCEPT !.ret = FALSE], "deleteTodo", "deleteTodo" \in Catching)]
    /\ UNCHANGED <<dbvars, now, initialized, sessions>>

NextFaults ==
    \/ NextSeq
    \/ RegisterCheckFails(1, RegisterBodies)
    \/ RegisterCreateFails(1)
    \/ TodosPostFails(1, CreateBodies)
    \/ TodosGetFails(1)
    \/ StatsGetFails(1)
    \/ LoadFails(1, "patch", IdParams)
    \/ LoadFails(1, "delete", IdParams)
    \/ PatchUpdateFails(1)
    \/ DeleteExecFails(1)

SpecFaults == Init /\ [][NextFaults]_vars

(***************************************************************************)
(* What the formulas below speak of.                                       *)
(***************************************************************************)

\* Slot p takes the step.
Acts(p) == req'[p] # req[p]

\* The step is the one in which the PATCH or DELETE request of slot p reads
\* its session and id and decides on 401, 400, 404 and 403.
LoadStep(p) ==
    /\ req[p].pc \in {"idle", "ready"}
    /\ req'[p].kind \in {"patch", "delete"}
    /\ req'[p].pc \in {"patchFilter", "deleteExec", "done"}

\* The request of slot p has called the persistence layer's `op`.
Called(r, op) == \E i \in 1..Len(r.calls) : r.calls[i] = op

(***************************************************************************)
(* C1.  Ownership: a PATCH or DELETE sent with the session of user A for a *)
(* todo that exists and belongs to another user B is answered 403 and      *)
(* changes nothing; and no step of a PATCH or DELETE request of A, however *)
(* it interleaves with other requests, changes or removes a todo that is   *)
(* not A's.                                                                *)
(***************************************************************************)
C1_ForbiddenLeavesTodo ==
    [][\A p \in Slots :
          /\ ( /\ LoadStep(p)
               /\ req'[p].session # 0
               /\ parseInt(req'[p].id) \in DOMAIN todos
               /\ todos[parseInt(req'[p].id)].user_id # req'[p].session )
             => /\ req'[p].status = 403
                /\ req'[p].pc = "done"
                /\ todos' = todos
          /\ (Acts(p) /\ req[p].kind \in {"patch", "delete"})
             => \A i \in DOMAIN todos :
                   todos[i].user_id # req[p].session
                   => i \in DOMAIN todos' /\ todos'[i] = todos[i]
      ]_vars

\* A PATCH and a DELETE have both been answered 403 for a todo of another
\* user, which is still there.
C1_Witness ==
    \E p, q \in Slots :
        /\ req[p].kind = "patch" /\ req[p].status = 403
        /\ req[q].kind = "delete" /\ req[q].status = 403
        /\ parseInt(req[p].id) \in DOMAIN todos
        /\ todos[parseInt(req[p].id)].user_id # req[p].session
        /\ parseInt(req[q].id) \in DOMAIN todos
        /\ todos[parseInt(req[q].id)].user_id # req[q].session

(***************************************************************************)
(* C2.  The order of the checks of a PATCH or DELETE: no session gives     *)
(* 401 whatever the id; otherwise an id that is no identifier (a decimal   *)
(* numeral) gives 400; otherwise an absent todo gives 404; otherwise a     *)
(* todo of another user gives 403; otherwise the handler goes on; and only *)
(* a request that went on writes to the table.                             *)
(***************************************************************************)
ValidIdentifier(id) == Len(id) > 0 /\ \A i \in 1..Len(id) : IsDigit(id[i])

C2_CheckOrder ==
    [][\A p \in Slots :
          /\ LoadStep(p) =>
                LET s == req'[p].session
                    id == req'[p].id
                IN  /\ req'[p].status =
                          IF s = 0 THEN 401
                          ELSE IF ~ValidIdentifier(id) THEN 400
                          ELSE IF parseInt(id) \notin DOMAIN todos THEN 404
                          ELSE IF todos[parseInt(id)].user_id # s THEN 403
                          ELSE 0
                    /\ req'[p].pc = "done" <=> req'[p].status # 0
          /\ (Acts(p) /\ req'[p].kind \in {"patch", "delete"} /\ todos' # todos)
             => req[p].pc \in {"patchUpdate", "deleteExec"}
      ]_vars


\* The step is the one in which the statement of updateTodo runs for the
\* PATCH of slot p.
UpdateStep(p) == req[p].pc = "patchUpdate" /\ req'[p].pc = "done"

(***************************************************************************)
(* C3.  An owner's PATCH, when its update is applied: completed = true on  *)
(* a todo that was not completed leaves completed_at a timestamp, not      *)
(* null; completed = false leaves completed_at null; on a todo that is     *)
(* completed, completed = true or no completed at all leaves completed_at  *)
(* as it was.                                                              *)
(***************************************************************************)
C3_CompletedAtTransitions ==
    [][\A p \in Slots :
          (UpdateStep(p) /\ parseInt(req[p].id) \in DOMAIN todos) =>
             LET old == todos[parseInt(req[p].id)]
                 new == todos'[parseInt(req[p].id)]
                 sent == Get(req[p].body, "completed")
             IN  /\ (sent = Bool(TRUE) /\ old.completed = Bool(FALSE))
                    => new.completed = Bool(TRUE) /\ new.completed_at.t = "number"
                 /\ sent = Bool(FALSE)
                    => new.completed = Bool(FALSE) /\ new.completed_at = Null
                 /\ (old.completed = Bool(TRUE) /\ sent \in {Bool(TRUE), Undefined})
                    => new.completed = Bool(TRUE) /\ new.completed_at = old.completed_at
      ]_vars

\* A todo completed at time 0 has been sent completed = true again at a
\* later time and still has the completed_at of time 0.
C3_Witness ==
    \E p \in Slots :
        /\ req[p].kind = "patch" /\ req[p].status = 200
        /\ Get(req[p].body, "completed") = Bool(TRUE)
        /\ req[p].ret.completed_at = Num(0)
        /\ req[p].ret.updated_at > 0

(***************************************************************************)
(* C4.  No step changes the id, the user_id or the created_at of a todo,   *)
(* whatever keys the bodies of the PATCH requests carry; and the keys a    *)
(* PATCH does not recognise cause no error: its status is the one its      *)
(* recognised keys alone would get, and its update fails only when the     *)
(* todo is gone.                                                           *)
(***************************************************************************)
Recognised(body) == [k \in DOMAIN body \cap AllowedFields |-> body[k]]

C4_ImmutableFields ==
    [][/\ \A i \in DOMAIN todos \cap DOMAIN todos' :
             /\ todos'[i].id = todos[i].id
             /\ todos'[i].user_id = todos[i].user_id
             /\ todos'[i].created_at = todos[i].created_at
       /\ \A p \in Slots :
             /\ (req[p].pc = "patchFilter" /\ Acts(p))
                => req'[p].status = FilterStatus(Recognised(req'[p].body))
             /\ (UpdateStep(p) /\ req'[p].status # 200)
                => parseInt(req[p].id) \notin DOMAIN todos
      ]_vars

\* A PATCH whose body names an id, a user_id and a created_at other than
\* the todo's has succeeded and the todo has its own.
C4_Witness ==
    \E p \in Slots :
        /\ req[p].kind = "patch" /\ req[p].status = 200
        /\ Has(req[p].body, "id") /\ req[p].body["id"] # Num(req[p].ret.id)
        /\ Has(req[p].body, "user_id") /\ req[p].body["user_id"] # Num(req[p].ret.user_id)
        /\ Has(req[p].body, "created_at")
        /\ req[p].body["created_at"] # Num(req[p].ret.created_at)
        /\ req[p].ret.title = req[p].body["title"]
        /\ req[p].ret.id = parseInt(req[p].id)
        /\ req[p].ret.user_id = req[p].session

(***************************************************************************)
(* C5.  updateTodo on an existing todo: with no field it returns the       *)
(* record as stored and the table is as before, updated_at included, and   *)
(* it is no error; with fields, the row differs from the old one in the    *)
(* given fields, which take the given values, and in updated_at, which     *)
(* takes the time of the call, and in nothing else, and no other row       *)
(* changes.                                                                *)
(***************************************************************************)
C5_UpdateFrame ==
    [][\A p \in Slots :
          (UpdateStep(p) /\ parseInt(req[p].id) \in DOMAIN todos) =>
             LET i == parseInt(req[p].id)
                 given == req[p].updates
             IN  IF DOMAIN given = {}
                 THEN /\ todos' = todos
                      /\ req'[p].ret = todos[i]
                      /\ req'[p].status = 200
                 ELSE /\ DOMAIN todos' = DOMAIN todos
                      /\ \A j \in DOMAIN todos \ {i} : todos'[j] = todos[j]
                      /\ \A c \in TodoColumns :
                            todos'[i][c] =
                               IF c \in DOMAIN given THEN given[c]
                               ELSE IF c = "updated_at" THEN req[p].ts
                               ELSE todos[i][c]
                      /\ req'[p].ret = todos'[i]
                      /\ req'[p].status = 200
      ]_vars

\* A PATCH whose filtered field set was empty has been answered with a
\* record whose updated_at is older than the request, and another todo
\* has an updated_at of the later time.
C5_Witness ==
    /\ \E p \in Slots :
          /\ req[p].kind = "patch" /\ req[p].status = 200
          /\ Recognised(req[p].body) = EmptyBody
          /\ req[p].ret.updated_at < now
          /\ todos[req[p].ret.id] = req[p].ret
    /\ \E i \in DOMAIN todos : todos[i].updated_at > todos[i].created_at


(***************************************************************************)
(* C6.  The statistics a user is answered: total is the number of the      *)
(* user's todos, completed the number of those that are completed,         *)
(* completionRate is 100 * completed / total rounded to the nearest        *)
(* integer, 0 when total is 0; 0 <= completed <= total and                 *)
(* 0 <= completionRate <= 100.                                             *)
(***************************************************************************)
Rounded(num, den) == (2 * num + den) \div (2 * den)

C6_Stats ==
    \A p \in Slots :
        (req[p].kind = "stats" /\ req[p].status = 200) =>
           LET mine == {i \in DOMAIN todos : todos[i].user_id = req[p].session}
               total == Cardinality(mine)
               completed == Cardinality({i \in mine : todos[i].completed = Bool(TRUE)})
               answer == req[p].ret
           IN  /\ answer.total = total
               /\ answer.completed = completed
               /\ answer.completionRate =
                     IF total = 0 THEN 0 ELSE Rounded(100 * completed, total)
               /\ 0 <= answer.completed /\ answer.completed <= answer.total
               /\ 0 <= answer.completionRate /\ answer.completionRate <= 100

(***************************************************************************)
(* C7.  deleteTodo returns true exactly when a todo of the id was there    *)
(* and this call removed it; for an id that is not there it returns false, *)
(* and the table is as before; after true, getTodoById of the id finds     *)
(* nothing and every other todo is as before.                              *)
(***************************************************************************)
DeleteStep(p) == req[p].pc = "deleteExec" /\ req'[p].pc = "done"

C7_DeleteResult ==
    [][\A p \in Slots :
          DeleteStep(p) =>
             LET i == parseInt(req[p].id) IN
             /\ req'[p].ret \in BOOLEAN
             /\ req'[p].ret <=> (i \in DOMAIN todos /\ i \notin DOMAIN todos')
             /\ i \notin DOMAIN todos => (~req'[p].ret /\ todos' = todos)
             /\ req'[p].ret =>
                   /\ getTodoById(todos', i) = NoTodo
                   /\ \A j \in DOMAIN todos \ {i} :
                         j \in DOMAIN todos' /\ todos'[j] = todos[j]
      ]_vars

\* Two DELETE requests for the same todo have both passed the checks; the
\* deleteTodo of one returned true, the deleteTodo of the other false, and
\* another todo is still there.
C7_Witness ==
    \E p, q \in Slots :
        /\ Called(req[p], "deleteTodo") /\ Called(req[q], "deleteTodo")
        /\ req[p].pc = "done" /\ req[q].pc = "done"
        /\ req[p].id = req[q].id
        /\ req[p].ret = TRUE /\ req[q].ret = FALSE
        /\ parseInt(req[p].id) \notin DOMAIN todos
        /\ DOMAIN todos # {}

(***************************************************************************)
(* C8.  No two users have the same username; a createUser for a username   *)
(* that is taken returns no user and adds no row, also when the            *)
(* registration passed the pre-check before the other one inserted.        *)
(***************************************************************************)
CreateUserStep(p) == req[p].pc = "registerCreate" /\ req'[p].pc = "done"

C8_UsernameUnique ==
    [][/\ \A u, v \in users' : u.username = v.username => u = v
       /\ \A p \in Slots :
             ( /\ CreateUserStep(p)
               /\ \E u \in users : u.username = req[p].body.username )
             => req'[p].ret = NoUser /\ users' = users
      ]_vars

\* Two registrations of one username both passed the pre-check; the
\* createUser of one returned the user, the createUser of the other none,
\* and the username has one row.
C8_Witness ==
    \E p, q \in Slots :
        /\ Called(req[p], "createUser") /\ Called(req[q], "createUser")
        /\ req[p].body.username = req[q].body.username
        /\ req[p].ret.id # 0
        /\ req[q].ret = NoUser
        /\ Cardinality({u \in users : u.username = req[p].body.username}) = 1

(***************************************************************************)
(* C9.  A registration with a valid body whose username is taken when the  *)
(* request is answered is answered 409, whether the pre-check or the       *)
(* insert found the existing user.                                         *)
(***************************************************************************)
C9_DuplicateIsConflict ==
    [][\A p \in Slots :
          ( /\ req'[p].kind = "register"
            /\ req[p].pc # "done" /\ req'[p].pc = "done"
            /\ validateUsername(req'[p].body.username)
            /\ validatePassword(req'[p].body.password)
            /\ \E u \in users : u.username = req'[p].body.username )
          => req'[p].status = 409
      ]_vars

(***************************************************************************)
(* C10.  The todo a POST creates belongs to the user of the session of the *)
(* request, whatever the body says; the POST adds that one row and changes *)
(* no other.                                                               *)
(***************************************************************************)
C10_OwnerFromSession ==
    [][\A p \in Slots :
          (req'[p].kind = "post" /\ Acts(p) /\ req'[p].status = 201) =>
             /\ req'[p].session # 0
             /\ req'[p].ret.user_id = req'[p].session
             /\ DOMAIN todos' = DOMAIN todos \cup {req'[p].ret.id}
             /\ req'[p].ret.id \notin DOMAIN todos
             /\ todos'[req'[p].ret.id] = req'[p].ret
             /\ \A i \in DOMAIN todos : todos'[i] = todos[i]
      ]_vars

\* Two POST requests with the same body, which names a user_id, have come
\* from the sessions of two users, and each todo belongs to the user of
\* its session.
C10_Witness ==
    \E p, q \in Slots :
        /\ req[p].kind = "post" /\ req[p].status = 201
        /\ req[q].kind = "post" /\ req[q].status = 201
        /\ req[p].body = req[q].body
        /\ Has(req[p].body, "user_id")
        /\ req[p].session # req[q].session
        /\ req[p].ret.id \in DOMAIN todos /\ req[q].ret.id \in DOMAIN todos
        /\ todos[req[p].ret.id].user_id = req[p].session
        /\ todos[req[q].ret.id].user_id = req[q].session


\* The step is the one in which the POST of slot p is handled.
PostStep(p) == req'[p].kind = "post" /\ Acts(p) /\ req'[p].pc = "done"

(***************************************************************************)
(* C11.  The todo a POST creates is the one getTodoById then finds; it is  *)
(* not completed, its completed_at is null, its created_at and updated_at  *)
(* are both the time of creation, its priority is the one given when that  *)
(* is high, medium or low and medium otherwise; and a POST is answered     *)
(* with an error only for its title, never for its priority.               *)
(***************************************************************************)
C11_CreateDefaults ==
    [][\A p \in Slots :
          (PostStep(p) /\ req'[p].session # 0) =>
             LET body == req'[p].body
                 title == Get(body, "title")
                 given == Get(body, "priority")
                 made == getTodoById(todos', req'[p].ret.id)
             IN  /\ req'[p].status = 201 =>
                       /\ made # NoTodo
                       /\ made = req'[p].ret
                       /\ made.completed = Bool(FALSE)
                       /\ made.completed_at = Null
                       /\ made.created_at = now
                       /\ made.updated_at = made.created_at
                       /\ made.priority =
                             IF given \in {Str(High), Str(Medium), Str(Low)}
                             THEN given ELSE Str(Medium)
                 /\ req'[p].status # 201 =>
                       ~( /\ title.t = "string"
                          /\ Len(Trim(title.s)) > 0
                          /\ Len(title.s) <= TitleMaxLength )
      ]_vars

\* A POST with a priority that is none of the three has been answered 201
\* at a time after the start, with a todo of priority medium that is stored
\* as returned.
C11_Witness ==
    \E p \in Slots :
        /\ req[p].kind = "post" /\ req[p].status = 201
        /\ Get(req[p].body, "priority") = Str(<<"x">>)
        /\ req[p].ret.priority = Str(Medium)
        /\ req[p].ret.created_at > 0
        /\ req[p].ret.id \in DOMAIN todos
        /\ todos[req[p].ret.id] = req[p].ret

(***************************************************************************)
(* C12.  A POST with a session is answered 201, and adds its todo, exactly *)
(* when the title is a string that, trimmed, is not empty and has at most  *)
(* 500 characters; otherwise it is answered 400 and the table is as        *)
(* before.                                                                 *)
(***************************************************************************)
C12_TitleValidation ==
    [][\A p \in Slots :
          (PostStep(p) /\ req'[p].session # 0) =>
             LET title == Get(req'[p].body, "title")
                 valid == /\ title.t = "string"
                          /\ Len(Trim(title.s)) > 0
                          /\ Len(Trim(title.s)) <= 500
             IN  IF valid
                 THEN /\ req'[p].status = 201
                      /\ DOMAIN todos' = DOMAIN todos \cup {req'[p].ret.id}
                      /\ req'[p].ret.id \notin DOMAIN todos
                 ELSE /\ req'[p].status = 400
                      /\ todos' = todos
      ]_vars

(***************************************************************************)
(* C18.  Every stored todo has a title that is a string, is not empty when *)
(* trimmed, has at most 500 characters and has no white space at its ends. *)
(***************************************************************************)
C18_StoredTitles ==
    \A i \in DOMAIN todos :
        /\ todos[i].title.t = "string"
        /\ Len(Trim(todos[i].title.s)) > 0
        /\ Len(todos[i].title.s) <= 500
        /\ Trim(todos[i].title.s) = todos[i].title.s


\* The step is the one in which the PATCH of slot p reads and checks its body.
FilterStep(p) == req[p].pc = "patchFilter" /\ Acts(p)

IsDataCall(op) == op # "initDb"
DataCalls(r) == SelectSeq(r.calls, IsDataCall)

\* The request ended in one of the four outcomes.
EndedInCheck(r) == r.pc = "done" /\ r.status \in {400, 401, 403}

(***************************************************************************)
(* C14, as stated.  A request that ends in unauthorized, invalid-id,       *)
(* forbidden or validation-error has called nothing of the persistence     *)
(* layer: no read, no write, no initDb.                                    *)
(***************************************************************************)
C14_NoStorageBeforeError ==
    \A p \in Slots : EndedInCheck(req[p]) => req[p].calls = <<>>

(***************************************************************************)
(* C14, amended.  A request that ends in unauthorized, in invalid-id or in *)
(* the validation-error of a POST or a registration has called no user or  *)
(* todo operation; a PATCH or DELETE that ends in forbidden and a PATCH    *)
(* that ends in validation-error have called getTodoById once and nothing  *)
(* else; initDb, when the request is the one that initializes, is called   *)
(* before all of this.                                                     *)
(***************************************************************************)
C14_NoWriteBeforeError ==
    \A p \in Slots :
        EndedInCheck(req[p]) =>
           LET r == req[p]
               loaded == /\ r.kind \in {"patch", "delete"}
                         /\ r.session # 0
                         /\ ~isNaN(parseInt(r.id))
           IN  /\ DataCalls(r) = IF loaded THEN <<"getTodoById">> ELSE <<>>
               /\ \A i \in 2..Len(r.calls) : r.calls[i] # "initDb"

\* A PATCH has been answered 403 after its getTodoById.
C14_Witness ==
    \E p \in Slots :
        /\ req[p].kind = "patch" /\ req[p].status = 403
        /\ req[p].pc = "done"
        /\ req[p].calls = <<"getTodoById">>


(***************************************************************************)
(* C16.  initDb runs at most once in the process and the flag is set at    *)
(* most once: a request starts initDb only when the flag is not set and no *)
(* other request is in initDb, the flag is set only when it is not set     *)
(* yet, and a request calls a user or todo operation only when the flag is *)
(* set.                                                                    *)
(***************************************************************************)
C16_InitOnce ==
    [][\A p \in Slots :
          /\ (req[p].pc = "idle" /\ req'[p].pc = "initDb")
             => /\ ~initialized
                /\ \A q \in Slots \ {p} : req[q].pc # "initDb"
          /\ (req[p].pc = "initDb" /\ req'[p].pc = "ready") => ~initialized
          /\ ( /\ Acts(p)
               /\ req'[p].calls # req[p].calls
               /\ req'[p].calls # <<>>
               /\ req'[p].calls[Len(req'[p].calls)] # "initDb" )
             => initialized
      ]_vars


\* The step is the one in which the GET /api/todos of slot p is answered
\* with a list.
ListStep(p) == req'[p].kind = "list" /\ Acts(p) /\ req'[p].status = 200

(***************************************************************************)
(* C17.  The list a user is answered holds the todos of that user as they  *)
(* are stored, each once, and none of another user; of two of them the one *)
(* created later (the one with the greater id) comes first; with no todos  *)
(* the list is empty.                                                      *)
(***************************************************************************)
C17_ListOrder ==
    [][\A p \in Slots :
          ListStep(p) =>
             LET rows == req'[p].ret
                 mine == {i \in DOMAIN todos : todos[i].user_id = req'[p].session}
             IN  /\ DOMAIN rows = 1..Cardinality(mine)
                 /\ {rows[i].id : i \in DOMAIN rows} = mine
                 /\ \A i \in DOMAIN rows : rows[i] = todos[rows[i].id]
                 /\ \A i, j \in DOMAIN rows : i < j => rows[i].id > rows[j].id
      ]_vars


(***************************************************************************)
(* C19.  The completed flag and completed_at of every stored todo agree:   *)
(* completed is true exactly when completed_at is not null.                *)
(***************************************************************************)
C19_CompletedAgrees ==
    \A i \in DOMAIN todos :
        Truthy(todos[i].completed) <=> todos[i].completed_at # Null


(***************************************************************************)
(* C20.  A todo that has been removed is in no later state (its id is not  *)
(* given out again and no step puts the row back); the updateTodo of a     *)
(* PATCH that runs when the row is gone changes nothing and returns no     *)
(* todo, and the PATCH is answered with an error, 500.                     *)
(***************************************************************************)
C20_PatchAfterDelete ==
    [][/\ \A i \in 1..(nextTodoId - 1) : i \notin DOMAIN todos => i \notin DOMAIN todos'
       /\ \A p \in Slots :
             (UpdateStep(p) /\ parseInt(req[p].id) \notin DOMAIN todos)
             => /\ todos' = todos
                /\ req'[p].ret = NoTodo
                /\ req'[p].status = 500
      ]_vars

\* A DELETE of a todo has been answered 200 and a PATCH of the same todo by
\* its owner, which had passed the ownership check and sent a new title,
\* has called updateTodo and been answered 500; the todo is gone.
C20_Witness ==
    \E p, q \in Slots :
        /\ req[p].kind = "patch" /\ req[p].pc = "done"
        /\ Called(req[p], "updateTodo")
        /\ Has(req[p].body, "title")
        /\ req[p].status = 500
        /\ req[q].kind = "delete" /\ req[q].pc = "done" /\ req[q].status = 200
        /\ req[q].id = req[p].id
        /\ parseInt(req[p].id) \notin DOMAIN todos


(***************************************************************************)
(* C15.  An operation of the persistence layer whose statement fails       *)
(* returns its sentinel (null, false) to its caller; the error does not    *)
(* leave the operation.                                                    *)
(***************************************************************************)
C15_ErrorsBecomeSentinels ==
    \A p \in Slots :
        req[p].failed # "none" =>
           /\ ~req[p].thrown
           /\ req[p].ret = Sentinel(req[p].failed)

====
